---- MODULE Spec2Model ----
(***************************************************************************)
(* The game-state engine of the Tetris application (main.ts): the seeded   *)
(* random sequence, the piece catalog and rotation table, the collision    *)
(* predicates, and the reducer's actions Tick, MoveSideways, MoveDownwards,*)
(* Rotate, HoldBlock and Reset, folded over one ordered action stream.     *)
(*                                                                         *)
(* A board is a sequence of BOARD_HEIGHT rows of BOARD_WIDTH cells; the    *)
(* code's row index r and column index c are element r+1 of the board and  *)
(* element c+1 of the row.  A cell holds 0, 1 or undefined.                *)
(***************************************************************************)
EXTENDS Integers, Sequences, FiniteSets, TLC

(***************************************************************************)
(* Program constants.                                                      *)
(***************************************************************************)
BOARD_WIDTH == 10
BOARD_HEIGHT == 20
SCORE_PER_ROW == 10

\* The value JavaScript reads from a hole of a sparse array once it is spread.
undefined == -1

\* RandomNumberSequence: m = 0x80000000 is kept as m - 1, the largest
\* integer the checker represents; a and c are the multiplier and increment.
mMinus1 == 2147483647
a == 1103515245
c == 12345

(***************************************************************************)
(* Bounds of the exploration.                                              *)
(***************************************************************************)
\* pieces locked into the board since the initial state
MaxLocks == 1
\* key presses since the initial state that were accepted, that is, changed
\* the state (MoveSideways, Rotate, HoldBlock)
MaxInputs == 2
\* length of the run of consecutive MoveDown actions that is counted
MaxRun == 22
\* the seeds 0..MaxSeed and the draws made from each of two sequences
MaxSeed == 15
MaxDraws == 3
\* the turns made of one piece, and the columns and rows it is translated by
MaxTurns == 4
MaxShift == 1

(***************************************************************************)
(* RandomNumberSequence: hash and the draw value.                          *)
(***************************************************************************)
\* (x + y) mod m for x, y in 0..m-1, without leaving 0..m-1
AddMod(x, y) == IF x > mMinus1 - y THEN x - (mMinus1 - y) - 1 ELSE x + y

\* (a * s) mod m for s in 0..m-1, every intermediate value below m: with
\* a = aHi * 2^16 + aLo and s = hi * 2^16 + lo, the product is
\* aHi*hi * 2^32 + (aHi*lo + aLo*hi) * 2^16 + aLo*lo, and 2^32 = 0 mod m
MulMod(s) ==
  LET aHi == a \div 65536
      aLo == a % 65536
      hi == s \div 65536
      lo == s % 65536
      mid == (((aHi * lo) % 32768) + ((aLo * hi) % 32768)) % 32768
  IN AddMod(mid * 65536, aLo * lo)

\* hash = (seed) => (a * seed + c) % m
hash(s) == AddMod(MulMod(s), c)

\* Math.floor(scale(h) * 7) with scale(h) = h / (m - 1): the number of
\* k in 1..7 with k * (m - 1) <= 7 * h.  As m - 1 = 7 * 306783378 + 1 this
\* is h >= k * 306783378 + 1 for k < 7 and h >= m - 1 for k = 7.
floorScale7(h) ==
  Cardinality({k \in 1..7 :
     IF k = 7 THEN h >= mMinus1 ELSE h >= k * 306783378 + 1})

\* the value field set by the constructor from its seed
valueOf(s) == floorScale7(hash(s)) + 1

(***************************************************************************)
(* The piece catalog.                                                      *)
(***************************************************************************)
B(px, py) == [x |-> px, y |-> py]

BlockNames == {"IBLOCK", "OBLOCK", "TBLOCK", "JBLOCK", "LBLOCK", "SBLOCK", "ZBLOCK"}

BlockCoordinates ==
  [n \in BlockNames |->
    CASE n = "IBLOCK" ->
           <<  <<B(3,0), B(4,0), B(5,0), B(6,0)>>,
               <<B(4,0), B(4,1), B(4,2), B(4,3)>>,
               <<B(3,1), B(4,1), B(5,1), B(6,1)>>,
               <<B(5,0), B(5,1), B(5,2), B(5,3)>>  >>
      [] n = "OBLOCK" ->
           <<  <<B(4,0), B(5,0), B(4,1), B(5,1)>>,
               <<B(4,0), B(5,0), B(4,1), B(5,1)>>,
               <<B(4,0), B(5,0), B(4,1), B(5,1)>>,
               <<B(4,0), B(5,0), B(4,1), B(5,1)>>  >>
      [] n = "TBLOCK" ->
           <<  <<B(4,0), B(3,1), B(4,1), B(5,1)>>,
               <<B(4,0), B(3,1), B(4,1), B(4,2)>>,
               <<B(3,1), B(4,1), B(5,1), B(4,2)>>,
               <<B(4,0), B(4,1), B(4,2), B(5,1)>>  >>
      [] n = "JBLOCK" ->
           <<  <<B(3,0), B(3,1), B(4,1), B(5,1)>>,
               <<B(4,0), B(3,0), B(4,1), B(4,2)>>,
               <<B(3,1), B(4,1), B(5,1), B(5,2)>>,
               <<B(4,0), B(4,1), B(4,2), B(5,2)>>  >>
      [] n = "LBLOCK" ->
           <<  <<B(5,0), B(3,1), B(4,1), B(5,1)>>,
               <<B(4,0), B(4,1), B(4,2), B(5,2)>>,
               <<B(3,1), B(4,1), B(5,1), B(3,2)>>,
               <<B(3,0), B(4,0), B(4,1), B(4,2)>>  >>
      [] n = "SBLOCK" ->
           <<  <<B(4,0), B(5,0), B(3,1), B(4,1)>>,
               <<B(3,0), B(3,1), B(4,1), B(4,2)>>,
               <<B(4,0), B(5,0), B(3,1), B(4,1)>>,
               <<B(3,0), B(3,1), B(4,1), B(4,2)>>  >>
      [] n = "ZBLOCK" ->
           <<  <<B(3,0), B(4,0), B(4,1), B(5,1)>>,
               <<B(4,0), B(3,1), B(4,1), B(3,2)>>,
               <<B(3,0), B(4,0), B(4,1), B(5,1)>>,
               <<B(4,0), B(3,1), B(4,1), B(3,2)>>  >> ]

\* IBLOCK .. ZBLOCK: the seven constants, each in rotation 1 at its
\* catalog position (style is display only and left out)
CatalogBlock(n) ==
  [name |-> n, currentRotation |-> 1, group |-> BlockCoordinates[n][1]]

\* the switch of getNextBlock on the drawn number
blockOfValue(num) ==
  CASE num = 1 -> CatalogBlock("IBLOCK")
    [] num = 2 -> CatalogBlock("OBLOCK")
    [] num = 3 -> CatalogBlock("TBLOCK")
    [] num = 4 -> CatalogBlock("JBLOCK")
    [] num = 5 -> CatalogBlock("LBLOCK")
    [] num = 6 -> CatalogBlock("SBLOCK")
    [] OTHER   -> CatalogBlock("ZBLOCK")

\* heldBlock: null
null == [name |-> "null", currentRotation |-> 0, group |-> << >>]

\* const board: the 20 x 10 grid of zeroes
board == [r \in 1..BOARD_HEIGHT |-> [col \in 1..BOARD_WIDTH |-> 0]]

(***************************************************************************)
(* Functions for moving blocks.                                            *)
(***************************************************************************)
moveDown(b)  == [x |-> b.x,     y |-> b.y + 1]
moveUp(b)    == [x |-> b.x,     y |-> b.y - 1]
moveLeft(b)  == [x |-> b.x - 1, y |-> b.y]
moveRight(b) == [x |-> b.x + 1, y |-> b.y]

\* the movement functions a MoveSideways is constructed with
Movement(dir, b) == IF dir = "left" THEN moveLeft(b) ELSE moveRight(b)

\* a moveToBoard that leaves the block at its catalog rows
moveToBoardInPlace(blockGroup) == blockGroup

moveToBoard(blockGroup) ==
  [blockGroup EXCEPT !.group = [i \in DOMAIN blockGroup.group |-> moveUp(blockGroup.group[i])]]

\* an updateBoard with the row and column of each cell swapped
updateBoardTransposed(bd, blockGroup) ==
  [r \in 1..Len(bd) |->
    [col \in 1..Len(bd[r]) |->
       IF \E i \in DOMAIN blockGroup.group :
            blockGroup.group[i].y = col - 1 /\ blockGroup.group[i].x = r - 1
       THEN 1 ELSE bd[r][col]]]

updateBoard(bd, blockGroup) ==
  [r \in 1..Len(bd) |->
    [col \in 1..Len(bd[r]) |->
       IF \E i \in DOMAIN blockGroup.group :
            blockGroup.group[i].x = col - 1 /\ blockGroup.group[i].y = r - 1
       THEN 1 ELSE bd[r][col]]]

(***************************************************************************)
(* Basic functions for detecting collisions.                               *)
(***************************************************************************)
\* a convertNegatives that takes the absolute value
convertNegativesAbs(num) == IF num < 0 THEN 0 - num ELSE num

convertNegatives(num) == IF num < 0 THEN 0 ELSE num

RECURSIVE scanCollision(_, _, _)
\* block.group.some(b => board[convertNegatives(b.y)][b.x] === 1), cell by
\* cell from cell i on: "true" at the first occupied cell, "throw" when the
\* row read is no row of the board (board[row] is undefined, and reading a
\* property of undefined raises a TypeError), "false" when the cells run
\* out.  A column that is no column of the row reads undefined, which is
\* not 1.
scanCollision(bd, group, i) ==
  IF i > Len(group) THEN "false"
  ELSE LET row == convertNegatives(group[i].y)
           col == group[i].x
       IN IF row >= Len(bd) THEN "throw"
          ELSE IF col >= 0 /\ col < Len(bd[row + 1]) /\ bd[row + 1][col + 1] = 1
               THEN "true"
               ELSE scanCollision(bd, group, i + 1)

\* the value checkBlockCollision returns, when it returns
checkBlockCollision(bd, block) == scanCollision(bd, block.group, 1) = "true"

\* checkBlockCollision raises instead of returning
throwsBlockCollision(bd, block) == scanCollision(bd, block.group, 1) = "throw"

\* a checkSideCollision that tests the right wall only
checkSideCollisionRightOnly(block) ==
  \E i \in DOMAIN block.group : block.group[i].x >= BOARD_WIDTH

checkSideCollision(block) ==
  \E i \in DOMAIN block.group : 0 > block.group[i].x \/ block.group[i].x >= BOARD_WIDTH

\* a checkBottomCollision that takes the last row for the floor
checkBottomCollisionEarly(block) ==
  \E i \in DOMAIN block.group : block.group[i].y >= BOARD_HEIGHT - 1

checkBottomCollision(block) ==
  \E i \in DOMAIN block.group : block.group[i].y >= BOARD_HEIGHT

checkTopCollision(block) ==
  \E i \in DOMAIN block.group : 0 > block.group[i].y

(***************************************************************************)
(* Specialized functions.  Each comes with the condition under which its   *)
(* evaluation raises: && and || evaluate left to right and stop early.     *)
(***************************************************************************)
\* a checkEndGame that tests the floor where the source tests the top
checkEndGameAtFloor(movedBlock, bd) ==
  checkBottomCollision(movedBlock) /\ checkBlockCollision(bd, movedBlock)

\* a checkEndGame that leaves out the test of the negative rows
checkEndGameAnyRow(movedBlock, bd) == checkBlockCollision(bd, movedBlock)

checkEndGame(movedBlock, bd) ==
  checkTopCollision(movedBlock) /\ checkBlockCollision(bd, movedBlock)

checkEndGameThrows(movedBlock, bd) ==
  checkTopCollision(movedBlock) /\ throwsBlockCollision(bd, movedBlock)

cantMoveDown(movedBlock, bd) ==
  checkBottomCollision(movedBlock) \/ checkBlockCollision(bd, movedBlock)

cantMoveDownThrows(movedBlock, bd) ==
  ~checkBottomCollision(movedBlock) /\ throwsBlockCollision(bd, movedBlock)

cantRotate(movedBlock, bd) ==
  \/ checkBlockCollision(bd, movedBlock)
  \/ checkBottomCollision(movedBlock)
  \/ checkSideCollision(movedBlock)
  \/ checkTopCollision(movedBlock)

cantRotateThrows(movedBlock, bd) == throwsBlockCollision(bd, movedBlock)

\* a cantMoveSideways without the test of the occupied cells
cantMoveSidewaysWallsOnly(movedBlock, bd) == checkSideCollision(movedBlock)

cantMoveSideways(movedBlock, bd) ==
  checkBlockCollision(bd, movedBlock) \/ checkSideCollision(movedBlock)

cantMoveSidewaysThrows(movedBlock, bd) == throwsBlockCollision(bd, movedBlock)

(***************************************************************************)
(* Rotate's helpers.                                                       *)
(***************************************************************************)
\* a toggleRotation that goes from 4 to 2
toggleRotationSkip(current) ==
  CASE current = 1 -> 2
    [] current = 2 -> 3
    [] current = 3 -> 4
    [] OTHER       -> 2

toggleRotation(current) ==
  CASE current = 1 -> 2
    [] current = 2 -> 3
    [] current = 3 -> 4
    [] OTHER       -> 1

\* a rotateBlock that measures the distance travelled from the layout of
\* rotation 1
rotateBlockFromSpawn(block) ==
  LET originalCoordinates == BlockCoordinates[block.name][1]
      distX == block.group[1].x - originalCoordinates[1].x
      distY == block.group[1].y - originalCoordinates[1].y
      newRotation == toggleRotation(block.currentRotation)
      table == BlockCoordinates[block.name][newRotation]
  IN [block EXCEPT
        !.group = [i \in DOMAIN table |-> B(distX + table[i].x, distY + table[i].y)],
        !.currentRotation = newRotation]

rotateBlock(block) ==
  LET originalCoordinates == BlockCoordinates[block.name][block.currentRotation]
      distX == block.group[1].x - originalCoordinates[1].x
      distY == block.group[1].y - originalCoordinates[1].y
      newRotation == toggleRotation(block.currentRotation)
      table == BlockCoordinates[block.name][newRotation]
  IN [block EXCEPT
        !.group = [i \in DOMAIN table |-> B(distX + table[i].x, distY + table[i].y)],
        !.currentRotation = newRotation]

(***************************************************************************)
(* MoveDownwards' helpers.                                                 *)
(***************************************************************************)
\* a newHighScore that takes the score of the game just ended
newHighScoreLast(sc, hs) == sc

\* MoveDownwards.apply: const newHighScore
newHighScore(sc, hs) == IF sc > hs THEN sc ELSE hs

\* an updateScore that counts one row whatever was cleared
updateScoreOneRow(currentScore, rowsCleared) == currentScore + SCORE_PER_ROW

updateScore(currentScore, rowsCleared) == currentScore + SCORE_PER_ROW * rowsCleared

\* an updateLevel with the first threshold one comparison off
updateLevelLate(sc) == IF sc <= 100 THEN 1 ELSE IF sc <= 200 THEN 2 ELSE 3

\* an updateLevel with a fourth level above 200
updateLevelFour(sc) == IF sc < 100 THEN 1 ELSE IF sc <= 200 THEN 2 ELSE 4

updateLevel(sc) == IF sc < 100 THEN 1 ELSE IF sc <= 200 THEN 2 ELSE 3

\* row.every(block => block === 1)
rowFull(row) == \A col \in DOMAIN row : row[col] = 1

countClearedRows(bd) == Cardinality({r \in DOMAIN bd : rowFull(bd[r])})

\* Array.from({length: clearedRows}, () => [...Array(10).map(() => 0)]):
\* map skips the ten holes of Array(10), so the spread reads ten undefined
newRows(clearedRows) == [r \in 1..clearedRows |-> [col \in 1..10 |-> undefined]]

\* a replaceClearedRows that puts no new rows on top
replaceClearedRowsNoRefill(bd, clearedRows) ==
  SelectSeq(bd, LAMBDA row : ~rowFull(row))

replaceClearedRows(bd, clearedRows) ==
  newRows(clearedRows) \o SelectSeq(bd, LAMBDA row : ~rowFull(row))

(***************************************************************************)
(* getNextBlock: sequence.next() replaces the seed of the one shared       *)
(* sequence by its hash and builds the value from that new seed.           *)
(***************************************************************************)
\* a next() that leaves the seed of the sequence in place
nextSeedStuck(s) == s

\* a next() that steps the seed of the sequence twice
nextSeedTwice(s) == hash(hash(s))

nextSeed(s) == hash(s)

\* a getNextBlock that reads the value of the sequence before next()
getNextBlockStale(s) == blockOfValue(valueOf(s))

getNextBlock(s) == blockOfValue(valueOf(nextSeed(s)))

(***************************************************************************)
(* State.  The ten fields of State, the seed of the shared sequence that   *)
(* getNextBlock advances, and whether an action has raised: scan rethrows, *)
(* the merged stream ends, and no further action is applied.               *)
(*                                                                         *)
(* Four more record what has happened: locks and inputs count the locks    *)
(* and the accepted key presses; run is the number of MoveDown actions     *)
(* applied since an I piece spawned above the empty board with no other    *)
(* action in between, -2 right after a Reset that was refused during such  *)
(* a run, and -1 otherwise; holdsSinceLock counts the accepted HoldBlocks  *)
(* since the last lock; clearedTotal is the number of rows cleared in the  *)
(* current game.                                                           *)
(*                                                                         *)
(* Two more belong to the specifications of the pure parts and stay as     *)
(* they are while the game is played: seqs holds two RandomNumberSequence  *)
(* objects with the values their next() has returned, and turned holds a   *)
(* piece, what rotateBlock has made of it, and the number of times it was  *)
(* applied.                                                                *)
(***************************************************************************)
VARIABLES gameEnd, boardState, currentBlock, nextBlock, heldBlock, holdStatus,
          RNG, score, highScore, level,
          seed, thrown,
          locks, inputs, run, holdsSinceLock, clearedTotal,
          seqs, turned

\* the fields of State
stateVars == <<gameEnd, boardState, currentBlock, nextBlock, heldBlock,
               holdStatus, RNG, score, highScore, level>>

\* the game: the state, the shared sequence, and what has happened
gameVars == <<gameEnd, boardState, currentBlock, nextBlock, heldBlock, holdStatus,
              RNG, score, highScore, level, seed, thrown,
              locks, inputs, run, holdsSinceLock, clearedTotal>>

\* the sequences and the piece of the pure parts
pureVars == <<seqs, turned>>

vars == <<gameEnd, boardState, currentBlock, nextBlock, heldBlock, holdStatus,
          RNG, score, highScore, level, seed, thrown,
          locks, inputs, run, holdsSinceLock, clearedTotal, seqs, turned>>

(***************************************************************************)
(* Boards the initial states start from.  Each is built from the empty     *)
(* board by the merges (updateBoard) and row replacements the game makes.  *)
(***************************************************************************)
\* the catalog layout of kind n in rotation r, translated by (dx, dy)
Placed(n, r, dx, dy) ==
  [name |-> n, currentRotation |-> r,
   group |-> [i \in 1..4 |-> B(BlockCoordinates[n][r][i].x + dx,
                               BlockCoordinates[n][r][i].y + dy)]]

\* the board after the pieces of the sequence ps have locked, none of them
\* completing a row: updateBoard applied for each piece
mergeAll(bd, ps) ==
  [r \in 1..Len(bd) |->
    [col \in 1..Len(bd[r]) |->
       IF \E k \in DOMAIN ps : \E i \in DOMAIN ps[k].group :
            ps[k].group[i].x = col - 1 /\ ps[k].group[i].y = r - 1
       THEN 1 ELSE bd[r][col]]]

\* two I pieces and a J piece leave row 19 with the single gap of column 4
GapBoard ==
  mergeAll(board, << Placed("IBLOCK", 1, -3, 19), Placed("IBLOCK", 1, 2, 19),
                     Placed("JBLOCK", 3, 4, 17) >>)

\* nine upright I pieces fill rows 16..19 except column 4
WellBoard ==
  mergeAll(board, [k \in 1..9 |->
     Placed("IBLOCK", 2, (IF k <= 4 THEN k - 1 ELSE k) - 4, 16)])

\* the board after k rows in all were completed and replaced, no cell
\* left occupied
AfterRows(k) ==
  replaceClearedRows([r \in 1..BOARD_HEIGHT |-> [col \in 1..BOARD_WIDTH |->
                        IF r > BOARD_HEIGHT - k THEN 1 ELSE 0]], k)

\* the pieces of GapBoard locked after nine rows were cleared
GapBoard90 ==
  mergeAll(AfterRows(9), << Placed("IBLOCK", 1, -3, 19), Placed("IBLOCK", 1, 2, 19),
                            Placed("JBLOCK", 3, 4, 17) >>)

\* the pieces of WellBoard locked after nineteen rows were cleared
WellBoard190 ==
  mergeAll(AfterRows(19), [k \in 1..9 |->
     Placed("IBLOCK", 2, (IF k <= 4 THEN k - 1 ELSE k) - 4, 16)])

\* five O pieces side by side complete rows 18 and 19, which are replaced
BoardAfterTwoRows ==
  LET filled == mergeAll(board, [k \in 1..5 |-> Placed("OBLOCK", 1, 2 * k - 6, 18)])
  IN replaceClearedRows(filled, countClearedRows(filled))

\* after that, ten O pieces dropped without a key press stack up to row 0
StackBoard ==
  mergeAll(BoardAfterTwoRows, [k \in 1..10 |-> Placed("OBLOCK", 1, 0, 20 - 2 * k)])

\* ten O pieces stacked in columns 2 and 3 up to row 0, beside an O piece
\* and a J piece that leave row 19 free in columns 4 to 6 only
DoomedBoard ==
  mergeAll(board, [k \in 1..12 |->
     IF k <= 10 THEN Placed("OBLOCK", 1, -2, 20 - 2 * k)
     ELSE IF k = 11 THEN Placed("OBLOCK", 1, -4, 18)
     ELSE Placed("JBLOCK", 1, 4, 18)])

\* four upright I pieces stacked in column 4 from the floor to row 4, and
\* an upright T piece (rotation 4) resting on them in rows 1 to 3: column 4
\* is occupied up to row 1 and row 0 is empty
SpireBoard ==
  mergeAll(board, [k \in 1..5 |->
     IF k <= 4 THEN Placed("IBLOCK", 2, 0, 20 - 4 * k)
     ELSE Placed("TBLOCK", 4, 0, 1)])

\* the starting points: the seed the sequence is constructed with (an
\* integer stands for the number Math.random() returns, and hash is
\* computed exactly), a board, the score and high score that go with the
\* board, the number of columns the active piece has been slid from its
\* spawn columns (by as many MoveSideways, which nothing blocks in the
\* spawn row of that board), and the number of Rotates applied to it
\* after one MoveDown (no Rotate is accepted in the spawn rows, and each
\* is accepted one row lower on the empty board).  On the empty board
\* this is BEGINNING_STATE, or the state those actions lead to from it; on
\* the other boards it is the state after the lock that completed the
\* board, no piece held.
Starts ==
  { [s0 |-> 43,        bd |-> board,       sc |-> 0,   hs |-> 0,  dx |-> 0,  rot |-> 0],
    [s0 |-> 661926866, bd |-> board,       sc |-> 0,   hs |-> 0,  dx |-> -2, rot |-> 0],
    [s0 |-> 34,        bd |-> board,       sc |-> 0,   hs |-> 0,  dx |-> 0,  rot |-> 3],
    [s0 |-> 18,        bd |-> GapBoard,    sc |-> 0,   hs |-> 0,  dx |-> 0,  rot |-> 0],
    [s0 |-> 7,         bd |-> GapBoard90,  sc |-> 90,  hs |-> 0,  dx |-> 0,  rot |-> 0],
    [s0 |-> 187,       bd |-> WellBoard190, sc |-> 190, hs |-> 0,  dx |-> 0,  rot |-> 0],
    [s0 |-> 1,         bd |-> StackBoard,  sc |-> 20,  hs |-> 0,  dx |-> 0,  rot |-> 0],
    [s0 |-> 88,        bd |-> StackBoard,  sc |-> 20,  hs |-> 30, dx |-> 0,  rot |-> 0],
    [s0 |-> 61,        bd |-> DoomedBoard, sc |-> 0,   hs |-> 0,  dx |-> 0,  rot |-> 0],
    [s0 |-> 3,         bd |-> SpireBoard,  sc |-> 0,   hs |-> 0,  dx |-> 0,  rot |-> 0] }

\* the block after MoveSideways has moved it dx columns
slide(blockGroup, dx) ==
  [blockGroup EXCEPT !.group = [i \in DOMAIN blockGroup.group |->
     B(blockGroup.group[i].x + dx, blockGroup.group[i].y)]]

\* the block after one MoveDown and k Rotates, the block itself for k = 0
turn(blockGroup, k) ==
  LET down == [blockGroup EXCEPT !.group = [i \in DOMAIN blockGroup.group |->
                                               moveDown(blockGroup.group[i])]]
  IN CASE k = 0 -> blockGroup
       [] k = 1 -> rotateBlock(down)
       [] k = 2 -> rotateBlock(rotateBlock(down))
       [] OTHER -> rotateBlock(rotateBlock(rotateBlock(down)))

\* new RandomNumberSequence(s)
RandomNumberSequence(s) == [seed |-> s, value |-> valueOf(s)]

\* no sequence drawn from, no piece turned
Unused == seqs = << >> /\ turned = << >>

\* BEGINNING_STATE: the first draw is the active piece, the second the
\* preview, and a third call of next() makes the RNG field.  run counts
\* from the start that is an I piece at spawn above the empty board.
Begin(st) ==
    LET s1 == nextSeed(st.s0)
        s2 == nextSeed(s1)
        s3 == nextSeed(s2)
    IN /\ gameEnd = FALSE
       /\ boardState = st.bd
       /\ currentBlock = turn(slide(moveToBoard(getNextBlock(st.s0)), st.dx), st.rot)
       /\ nextBlock = getNextBlock(s1)
       /\ heldBlock = null
       /\ holdStatus = FALSE
       /\ RNG = RandomNumberSequence(s3)
       /\ score = st.sc
       /\ highScore = st.hs
       /\ level = updateLevel(st.sc)
       /\ seed = s3
       /\ thrown = FALSE
       /\ locks = 0
       /\ inputs = 0
       /\ run = IF st.bd = board /\ st.dx = 0 /\ st.rot = 0
                   /\ getNextBlock(st.s0).name = "IBLOCK"
                THEN 0 ELSE -1
       /\ holdsSinceLock = 0
       /\ clearedTotal = st.sc \div SCORE_PER_ROW

Init == Unused /\ \E st \in Starts : Begin(st)

(***************************************************************************)
(* Actions.                                                                *)
(***************************************************************************)
\* an exception leaves the last state in place and ends the stream
Throw ==
  /\ thrown' = TRUE
  /\ UNCHANGED <<gameEnd, boardState, currentBlock, nextBlock, heldBlock,
                 holdStatus, RNG, score, highScore, level, seed,
                 locks, inputs, run, holdsSinceLock, clearedTotal>>

\* the run of MoveDown actions goes on
RunOn == run' = IF run >= 0 /\ run < MaxRun THEN run + 1 ELSE -1

\* MoveDownwards.apply
MoveDownwardsApply ==
  IF checkEndGameThrows(currentBlock, boardState) THEN Throw
  ELSE IF checkEndGame(currentBlock, boardState)
  THEN /\ gameEnd' = TRUE
       /\ highScore' = newHighScore(score, highScore)
       /\ RunOn
       /\ UNCHANGED <<boardState, currentBlock, nextBlock, heldBlock, holdStatus,
                      RNG, score, level, seed, thrown, locks, inputs, holdsSinceLock, clearedTotal>>
  ELSE LET movedBlock == [currentBlock EXCEPT
                            !.group = [i \in DOMAIN currentBlock.group |->
                                          moveDown(currentBlock.group[i])]]
       IN IF cantMoveDownThrows(movedBlock, boardState) THEN Throw
          ELSE IF cantMoveDown(movedBlock, boardState)
          THEN LET newBoard == updateBoard(boardState, currentBlock)
                   clearedRows == countClearedRows(newBoard)
               IN /\ locks < MaxLocks
                  /\ locks' = locks + 1
                  /\ seed' = nextSeed(seed)
                  /\ nextBlock' = getNextBlock(seed)
                  /\ currentBlock' = moveToBoard(nextBlock)
                  /\ holdStatus' = FALSE
                  /\ holdsSinceLock' = 0
                  /\ clearedTotal' = clearedTotal + clearedRows
                  /\ IF clearedRows # 0
                     THEN /\ boardState' = replaceClearedRows(newBoard, clearedRows)
                          /\ score' = updateScore(score, clearedRows)
                          /\ level' = updateLevel(updateScore(score, clearedRows))
                     ELSE /\ boardState' = newBoard
                          /\ UNCHANGED <<score, level>>
                  /\ RunOn
                  /\ UNCHANGED <<gameEnd, heldBlock, RNG, highScore, thrown, inputs>>
          ELSE /\ currentBlock' = movedBlock
               /\ RunOn
               /\ UNCHANGED <<gameEnd, boardState, nextBlock, heldBlock, holdStatus,
                              RNG, score, highScore, level, seed, thrown,
                              locks, inputs, holdsSinceLock, clearedTotal>>

\* KeyS
MoveDown == ~thrown /\ MoveDownwardsApply /\ UNCHANGED pureVars

\* a Tick that moves the block down whatever the level
TickAnyLevel(n) == ~thrown /\ MoveDownwardsApply /\ UNCHANGED pureVars

\* Tick.apply, for the tick sources of levels 1, 2 and 3
Tick(n) ==
  /\ ~thrown
  /\ IF level = n THEN MoveDownwardsApply ELSE UNCHANGED gameVars
  /\ UNCHANGED pureVars

\* Rotate.apply (KeyW)
Rotate ==
  /\ ~thrown
  /\ UNCHANGED pureVars
  /\ LET rotatedBlock == rotateBlock(currentBlock)
     IN IF cantRotateThrows(rotatedBlock, boardState) THEN Throw
        ELSE IF cantRotate(rotatedBlock, boardState)
        THEN /\ run' = -1
             /\ UNCHANGED <<gameEnd, boardState, currentBlock, nextBlock, heldBlock,
                            holdStatus, RNG, score, highScore, level, seed, thrown,
                            locks, inputs, holdsSinceLock, clearedTotal>>
        ELSE /\ inputs < MaxInputs
             /\ currentBlock' = rotatedBlock
             /\ inputs' = inputs + 1
             /\ run' = -1
             /\ UNCHANGED <<gameEnd, boardState, nextBlock, heldBlock, holdStatus,
                            RNG, score, highScore, level, seed, thrown,
                            locks, holdsSinceLock, clearedTotal>>

\* MoveSideways.apply (KeyA: moveLeft, KeyD: moveRight)
MoveSideways(dir) ==
  /\ ~thrown
  /\ UNCHANGED pureVars
  /\ LET movedBlock == [currentBlock EXCEPT
                          !.group = [i \in DOMAIN currentBlock.group |->
                                        Movement(dir, currentBlock.group[i])]]
     IN IF cantMoveSidewaysThrows(movedBlock, boardState) THEN Throw
        ELSE IF cantMoveSideways(movedBlock, boardState)
        THEN /\ run' = -1
             /\ UNCHANGED <<gameEnd, boardState, currentBlock, nextBlock, heldBlock,
                            holdStatus, RNG, score, highScore, level, seed, thrown,
                            locks, inputs, holdsSinceLock, clearedTotal>>
        ELSE /\ inputs < MaxInputs
             /\ currentBlock' = movedBlock
             /\ inputs' = inputs + 1
             /\ run' = -1
             /\ UNCHANGED <<gameEnd, boardState, nextBlock, heldBlock, holdStatus,
                            RNG, score, highScore, level, seed, thrown,
                            locks, holdsSinceLock, clearedTotal>>

\* HoldBlock.apply (KeyH)
HoldBlock ==
  /\ ~thrown
  /\ UNCHANGED pureVars
  /\ IF holdStatus
     THEN /\ run' = -1
          /\ UNCHANGED <<gameEnd, boardState, currentBlock, nextBlock, heldBlock,
                         holdStatus, RNG, score, highScore, level, seed, thrown,
                         locks, inputs, holdsSinceLock, clearedTotal>>
     ELSE LET current == [currentBlock EXCEPT
                            !.group = BlockCoordinates[currentBlock.name][1]]
          IN /\ inputs < MaxInputs
             /\ IF heldBlock # null
                THEN /\ currentBlock' = [heldBlock EXCEPT
                                           !.group = BlockCoordinates[heldBlock.name][1]]
                     /\ seed' = seed
                ELSE /\ currentBlock' = getNextBlock(seed)
                     /\ seed' = nextSeed(seed)
             /\ heldBlock' = current
             /\ holdStatus' = TRUE
             /\ inputs' = inputs + 1
             /\ run' = -1
             /\ holdsSinceLock' = IF holdsSinceLock < 2 THEN holdsSinceLock + 1 ELSE 2
             /\ clearedTotal' = clearedTotal
             /\ UNCHANGED <<gameEnd, boardState, nextBlock, RNG, score, highScore,
                            level, thrown, locks>>

\* a Reset that does not ask whether the game has ended
ResetAnytime ==
  /\ ~thrown
  /\ UNCHANGED pureVars
  /\ gameEnd' = FALSE
  /\ boardState' = board
  /\ currentBlock' = moveToBoard(getNextBlock(seed))
  /\ nextBlock' = getNextBlock(nextSeed(seed))
  /\ seed' = nextSeed(nextSeed(seed))
  /\ heldBlock' = null
  /\ holdStatus' = FALSE
  /\ score' = 0
  /\ level' = 1
  /\ run' = -1
  /\ clearedTotal' = 0
  /\ UNCHANGED <<RNG, highScore, thrown, locks, inputs, holdsSinceLock>>

\* Reset.apply (KeyR)
Reset ==
  /\ ~thrown
  /\ UNCHANGED pureVars
  /\ IF gameEnd
     THEN /\ gameEnd' = FALSE
          /\ boardState' = board
          /\ currentBlock' = moveToBoard(getNextBlock(seed))
          /\ nextBlock' = getNextBlock(nextSeed(seed))
          /\ seed' = nextSeed(nextSeed(seed))
          /\ heldBlock' = null
          /\ holdStatus' = FALSE
          /\ score' = 0
          /\ level' = 1
          /\ run' = -1
          /\ clearedTotal' = 0
          /\ UNCHANGED <<RNG, highScore, thrown, locks, inputs, holdsSinceLock>>
     ELSE /\ run' = IF run >= 0 THEN -2 ELSE -1
          /\ UNCHANGED <<gameEnd, boardState, currentBlock, nextBlock, heldBlock,
                         holdStatus, RNG, score, highScore, level, seed, thrown,
                         locks, inputs, holdsSinceLock, clearedTotal>>

Next ==
  \/ \E n \in 1..3 : Tick(n)
  \/ MoveDown
  \/ \E dir \in {"left", "right"} : MoveSideways(dir)
  \/ Rotate
  \/ HoldBlock
  \/ Reset

Spec == Init /\ [][Next]_vars

(***************************************************************************)
(* The stream under its timers.  interval() fires each tick source again   *)
(* and again as long as the stream is subscribed, so the tick whose level  *)
(* is the level of the state is applied again and again.                   *)
(***************************************************************************)
MatchingTick == \E n \in 1..3 : level = n /\ Tick(n)

SpecFair == Init /\ [][Next]_vars /\ WF_vars(MatchingTick)

(***************************************************************************)
(* RandomNumberSequence by itself: two objects constructed with one seed,  *)
(* and next() called on the one or the other.  The game is at rest in      *)
(* BEGINNING_STATE.                                                        *)
(***************************************************************************)
AtRest ==
  Begin([s0 |-> 43, bd |-> board, sc |-> 0, hs |-> 0, dx |-> 0, rot |-> 0])

\* the seeds the two objects are constructed with
Seeds == 0..MaxSeed \cup {661926866}

InitRNG ==
  /\ AtRest
  /\ turned = << >>
  /\ \E s \in Seeds :
       seqs = [k \in 1..2 |-> [obj |-> RandomNumberSequence(s), draws |-> << >>]]

\* a next() whose seed is one cell shared by the objects
NextOfShared(k) ==
  /\ Len(seqs[k].draws) < MaxDraws
  /\ seqs' = [j \in 1..2 |->
       [obj   |-> [seqs[j].obj EXCEPT !.seed = nextSeed(seqs[1].obj.seed)],
        draws |-> IF j = k
                  THEN Append(seqs[j].draws,
                              RandomNumberSequence(nextSeed(seqs[1].obj.seed)).value)
                  ELSE seqs[j].draws]]
  /\ UNCHANGED <<gameVars, turned>>

\* object k's next(): its seed becomes the hash of its seed, and the value
\* drawn is that of the object constructed with the new seed
NextOf(k) ==
  /\ Len(seqs[k].draws) < MaxDraws
  /\ seqs' = [seqs EXCEPT ![k] =
       [obj   |-> [seqs[k].obj EXCEPT !.seed = nextSeed(seqs[k].obj.seed)],
        draws |-> Append(seqs[k].draws,
                         RandomNumberSequence(nextSeed(seqs[k].obj.seed)).value)]]
  /\ UNCHANGED <<gameVars, turned>>

NextRNG == \E k \in 1..2 : NextOf(k)

SpecRNG == InitRNG /\ [][NextRNG]_vars

(***************************************************************************)
(* rotateBlock by itself: a piece of any kind in any rotation, translated  *)
(* from its catalog layout, and rotateBlock applied to it with no          *)
(* collision test.                                                         *)
(***************************************************************************)
InitRot ==
  /\ AtRest
  /\ seqs = << >>
  /\ \E n \in BlockNames : \E r \in 1..4 :
     \E dx \in -MaxShift..MaxShift : \E dy \in -MaxShift..MaxShift :
       turned = [from  |-> Placed(n, r, dx, dy),
                 now   |-> Placed(n, r, dx, dy),
                 turns |-> 0]

Turn ==
  /\ turned.turns < MaxTurns
  /\ turned' = [turned EXCEPT !.now = rotateBlock(turned.now),
                               !.turns = turned.turns + 1]
  /\ UNCHANGED <<gameVars, seqs>>

SpecRot == InitRot /\ [][Turn]_vars

(***************************************************************************)
(* Properties.  The vocabulary below is written from the statements, cell  *)
(* by cell, and uses none of the collision functions above.                *)
(***************************************************************************)
\* the cell of the board in column x of row y holds 1
Occupied(bd, x, y) ==
  /\ x >= 0 /\ x <= 9
  /\ y >= 0 /\ y <= 19
  /\ bd[y + 1][x + 1] = 1

\* the cells of a block's group, each shifted by (dx, dy)
Shifted(blk, dx, dy) ==
  [i \in DOMAIN blk.group |-> [x |-> blk.group[i].x + dx, y |-> blk.group[i].y + dy]]

\* every cell lies in columns 0..9 and rows 0..19 and on no occupied cell
InsideAndFree(cells, bd) ==
  \A i \in DOMAIN cells :
    /\ cells[i].x >= 0 /\ cells[i].x <= 9
    /\ cells[i].y >= 0 /\ cells[i].y <= 19
    /\ ~Occupied(bd, cells[i].x, cells[i].y)

\* some cell lies outside columns 0..9, or on an occupied cell when a
\* negative row is read as row 0
SidewaysBlocked(cells, bd) ==
  \E i \in DOMAIN cells :
    \/ cells[i].x < 0
    \/ cells[i].x > 9
    \/ Occupied(bd, cells[i].x, IF cells[i].y < 0 THEN 0 ELSE cells[i].y)

\* the piece has a cell in a negative row and a cell that, negative rows
\* read as row 0, lies on an occupied cell
EndGamePre(blk, bd) ==
  /\ \E i \in DOMAIN blk.group : blk.group[i].y < 0
  /\ \E i \in DOMAIN blk.group :
       Occupied(bd, blk.group[i].x, IF blk.group[i].y < 0 THEN 0 ELSE blk.group[i].y)

\* one row further down the piece would reach row 20 or an occupied cell
Landing(blk, bd) ==
  \E i \in DOMAIN blk.group :
    \/ blk.group[i].y + 1 >= 20
    \/ Occupied(bd, blk.group[i].x, blk.group[i].y + 1)

\* the board with the cells of the piece set to 1
Merged(bd, blk) ==
  [r \in 1..20 |->
    [col \in 1..10 |->
       IF \E i \in DOMAIN blk.group : blk.group[i] = [x |-> col - 1, y |-> r - 1]
       THEN 1 ELSE bd[r][col]]]

\* the rows of a board whose ten cells all hold 1
FullRows(bd) == {r \in 1..20 : \A col \in 1..10 : bd[r][col] = 1}

\* a piece of the kind of blk, one row above the catalog position of the
\* kind's first rotation
SpawnOf(blk) ==
  [name |-> blk.name, currentRotation |-> 1,
   group |-> [i \in 1..4 |-> [x |-> BlockCoordinates[blk.name][1][i].x,
                              y |-> BlockCoordinates[blk.name][1][i].y - 1]]]

\* the number of cells of a board that hold 1
OccupiedCount(bd) ==
  Cardinality({rc \in (1..20) \X (1..10) : bd[rc[1]][rc[2]] = 1})

\* C1: no action ever raises an error: every board lookup of the collision
\* checks reads a row in 0..19, so no action application throws.
C1_NoActionThrows == thrown = FALSE

\* C2: Rotate replaces the active piece by its rotated placement exactly
\* when that placement lies on no occupied cell and has every cell in
\* columns 0..9 and rows 0..19; in every other case Rotate returns the
\* state unchanged.  There is no partial effect: nothing but the active
\* piece ever changes.
C2_RotateAllOrNothing ==
  [][Rotate =>
       LET rotated == rotateBlock(currentBlock)
       IN /\ thrown' = FALSE
          /\ currentBlock' = IF InsideAndFree(rotated.group, boardState)
                             THEN rotated ELSE currentBlock
          /\ UNCHANGED <<gameEnd, boardState, nextBlock, heldBlock, holdStatus,
                         RNG, score, highScore, level, seed>>]_vars

\* C3: MoveSideways moves every cell of the active piece one column in its
\* direction, rows kept, exactly when no moved cell leaves columns 0..9 or
\* lies on an occupied cell (negative rows read as row 0); otherwise it
\* returns the state unchanged.  Nothing but the active piece changes.
C3_MoveSidewaysOneColumn ==
  [][\A dir \in {"left", "right"} :
       MoveSideways(dir) =>
         LET moved == Shifted(currentBlock, IF dir = "left" THEN -1 ELSE 1, 0)
         IN /\ thrown' = FALSE
            /\ currentBlock' = IF SidewaysBlocked(moved, boardState)
                               THEN currentBlock
                               ELSE [currentBlock EXCEPT !.group = moved]
            /\ UNCHANGED <<gameEnd, boardState, nextBlock, heldBlock, holdStatus,
                           RNG, score, highScore, level, seed>>]_vars

\* after an accepted key press a piece not swapped by a hold stands in
\* another column than its rotation's catalog layout, at the left wall,
\* with a key press to spare
C3_Witness ==
  /\ ~thrown
  /\ heldBlock = null
  /\ inputs = 1
  /\ currentBlock.group[1].x #
       BlockCoordinates[currentBlock.name][currentBlock.currentRotation][1].x
  /\ \E i \in DOMAIN currentBlock.group : currentBlock.group[i].x = 0
  /\ SidewaysBlocked(Shifted(currentBlock, -1, 0), boardState)

\* C4: MoveDown on a piece that has a cell in a negative row and a cell on
\* an occupied cell (negative rows read as row 0) sets gameEnd, makes
\* highScore the larger of score and highScore, and changes nothing else:
\* board, active piece, preview, held piece, score and level stay, and no
\* piece is drawn.
C4_EndGameOnlyFlagsAndHighScore ==
  [][MoveDown /\ EndGamePre(currentBlock, boardState) =>
       /\ thrown' = FALSE
       /\ gameEnd' = TRUE
       /\ highScore' = IF score > highScore THEN score ELSE highScore
       /\ UNCHANGED <<boardState, currentBlock, nextBlock, heldBlock, holdStatus,
                      RNG, score, level, seed>>]_vars

\* the game has ended on a piece stuck at the top and the high score has
\* been raised to the score
C4_Witness ==
  /\ gameEnd
  /\ EndGamePre(currentBlock, boardState)
  /\ score > 0
  /\ highScore = score

\* C5: MoveDown on a piece that is not in the end-game condition, would
\* reach row 20 or an occupied cell one row down, and completes no row when
\* merged: the board becomes the merged board, the active piece the old
\* preview one row above its catalog position, the preview a fresh draw,
\* holdStatus false; score, level, highScore, held piece and gameEnd stay.
C5_LockWithoutClear ==
  [][MoveDown /\ ~EndGamePre(currentBlock, boardState)
              /\ Landing(currentBlock, boardState)
              /\ FullRows(Merged(boardState, currentBlock)) = {} =>
       /\ thrown' = FALSE
       /\ boardState' = Merged(boardState, currentBlock)
       /\ currentBlock' = SpawnOf(nextBlock)
       /\ seed' = hash(seed)
       /\ nextBlock' = blockOfValue(valueOf(hash(seed)))
       /\ holdStatus' = FALSE
       /\ UNCHANGED <<score, level, highScore, heldBlock, gameEnd>>]_vars

\* one piece has locked on the empty board without completing a row
C5_Witness ==
  /\ locks = 1
  /\ score = 0
  /\ ~holdStatus
  /\ OccupiedCount(boardState) = 4
  /\ FullRows(boardState) = {}
  /\ currentBlock = SpawnOf(currentBlock)

\* the score after k rows were cleared at score sc, and its level
ScoreAfter(sc, k) == sc + 10 * k

LevelOf(sc) == IF sc < 100 THEN 1 ELSE IF sc <= 200 THEN 2 ELSE 3

\* C6: when the merge of a lock completes k >= 1 full rows, those rows go,
\* the other rows keep their order, k empty rows (ten cells holding 0) are
\* put on top, the board keeps 20 rows, the score grows by 10 * k and the
\* level is recomputed from the new score.
C6_LineClear ==
  [][MoveDown /\ ~EndGamePre(currentBlock, boardState)
              /\ Landing(currentBlock, boardState)
              /\ FullRows(Merged(boardState, currentBlock)) # {} =>
       LET merged == Merged(boardState, currentBlock)
           k == Cardinality(FullRows(merged))
           others == SelectSeq(merged, LAMBDA row : \E col \in 1..10 : row[col] # 1)
       IN /\ thrown' = FALSE
          /\ boardState' = [r \in 1..k |-> [col \in 1..10 |-> 0]] \o others
          /\ Len(boardState') = 20
          /\ score' = ScoreAfter(score, k)
          /\ level' = LevelOf(ScoreAfter(score, k))]_vars

\* C7: MoveDown on a piece that is neither in the end-game condition nor
\* landing is a free fall: every cell of the active piece goes one row
\* down, columns kept, and nothing else changes; no piece is drawn.
C7_FreeFall ==
  [][MoveDown /\ ~EndGamePre(currentBlock, boardState)
              /\ ~Landing(currentBlock, boardState) =>
       /\ thrown' = FALSE
       /\ currentBlock' = [currentBlock EXCEPT !.group = Shifted(currentBlock, 0, 1)]
       /\ UNCHANGED <<gameEnd, boardState, nextBlock, heldBlock, holdStatus,
                      RNG, score, highScore, level, seed>>]_vars

\* a piece never held nor rotated stands two rows or more below its spawn
\* row, no piece having locked
C7_Witness ==
  /\ ~thrown
  /\ locks = 0
  /\ heldBlock = null
  /\ currentBlock.currentRotation = 1
  /\ currentBlock.group[1].y >= BlockCoordinates[currentBlock.name][1][1].y + 1

\* the board whose only occupied cells are columns 3..6 of row 19
IRow19 ==
  [r \in 1..20 |-> [col \in 1..10 |-> IF r = 20 /\ col \in 4..7 THEN 1 ELSE 0]]

\* the four cells of row 19 in columns 3..6
IOnRow19 == [i \in 1..4 |-> [x |-> i + 2, y |-> 19]]

\* C8: from the empty board with an I piece at spawn (columns 3..6, one row
\* above the top), after 19 MoveDown actions the I piece occupies row 19,
\* columns 3..6, and the board is still empty; the 20th MoveDown locks it:
\* the board then has exactly those four cells occupied, the active piece
\* is the old preview at spawn, and the score is unchanged.
C8_TwentiethMoveDownLocks ==
  [][/\ run = 18 /\ run' = 19 =>
          /\ boardState' = board
          /\ currentBlock'.group = IOnRow19
     /\ run = 19 /\ run' = 20 =>
          /\ boardState' = IRow19
          /\ currentBlock' = SpawnOf(nextBlock)
          /\ score' = score]_vars

\* C8 as the code has it: the first 20 MoveDown actions are free falls,
\* after which the I piece occupies row 19, columns 3..6, above the empty
\* board; the 21st MoveDown locks it: exactly those four cells occupied,
\* the active piece the old preview at spawn, the score unchanged.
C8_TwentyFirstMoveDownLocks ==
  [][/\ run >= 0 /\ run <= 19 /\ run' = run + 1 =>
          /\ boardState' = board
          /\ nextBlock' = nextBlock
          /\ currentBlock' = [currentBlock EXCEPT !.group = Shifted(currentBlock, 0, 1)]
     /\ run = 19 /\ run' = 20 =>
          currentBlock'.group = IOnRow19
     /\ run = 20 /\ run' = 21 =>
          /\ boardState' = IRow19
          /\ currentBlock' = SpawnOf(nextBlock)
          /\ score' = score]_vars

\* 21 MoveDown actions after the start the I piece has locked on row 19
C8_Witness ==
  /\ run = 21
  /\ boardState = IRow19
  /\ locks = 1

\* C9: HoldBlock is accepted at most once per piece lifetime: once one is
\* accepted, every further HoldBlock returns the state unchanged until a
\* piece locks; after that lock the next HoldBlock is accepted again.
C9_HoldOncePerPiece ==
  [][HoldBlock =>
       IF holdsSinceLock >= 1
       THEN UNCHANGED <<gameEnd, boardState, currentBlock, nextBlock, heldBlock,
                        holdStatus, RNG, score, highScore, level, seed>>
       ELSE holdStatus' /\ heldBlock' # null]_vars

\* C10: holdStatus goes from true to false only when a piece locks; no
\* other action clears it.
C10_HoldStatusClearedOnlyByLock ==
  [][holdStatus /\ ~holdStatus' => locks' = locks + 1]_vars

\* the cells of the piece are the catalog layout of its kind's first
\* rotation and its rotation index is 1
InSpawnOrientation(blk) ==
  /\ blk.group = BlockCoordinates[blk.name][1]
  /\ blk.currentRotation = 1

\* C11: a piece stored by HoldBlock, and a piece later taken back from hold
\* as the active piece, is in its spawn orientation: its cells are the
\* catalog rotation-1 layout of its kind and its rotation index is 1,
\* whatever rotation it had when it was held.
C11_HeldPieceInSpawnOrientation ==
  [][HoldBlock /\ ~holdStatus =>
       /\ InSpawnOrientation(heldBlock')
       /\ heldBlock # null => InSpawnOrientation(currentBlock')]_vars

\* the kind of piece the sequence yields at its next draw from seed s
KindDrawn(s) == blockOfValue(valueOf(hash(s))).name

\* C12: an accepted HoldBlock with no held piece makes a freshly drawn
\* piece the active piece, consuming exactly one draw, and leaves the
\* preview unchanged; with a held piece it swaps the active and the held
\* piece and consumes no draw.  In both cases board, score, level,
\* highScore and gameEnd are unchanged and the hold flag becomes true.
C12_HoldDrawsOrSwaps ==
  [][HoldBlock /\ ~holdStatus =>
       /\ thrown' = FALSE
       /\ heldBlock'.name = currentBlock.name
       /\ IF heldBlock = null
          THEN /\ currentBlock'.name = KindDrawn(seed)
               /\ seed' = hash(seed)
               /\ nextBlock' = nextBlock
          ELSE /\ currentBlock'.name = heldBlock.name
               /\ seed' = seed
       /\ holdStatus' = TRUE
       /\ UNCHANGED <<boardState, score, level, highScore, gameEnd>>]_vars

\* a hold was accepted after the lock and the last draw of the sequence is
\* the one that made the preview at that lock: the hold took the piece
\* held before the lock and drew nothing
C12_Witness ==
  /\ locks = 1
  /\ holdsSinceLock = 1
  /\ holdStatus
  /\ heldBlock # null
  /\ nextBlock.name = blockOfValue(valueOf(seed)).name
  /\ currentBlock.name # nextBlock.name

\* C13: Reset on a state with gameEnd false returns that state unchanged
\* and draws nothing from the random sequence.
C13_ResetRefusedInPlay ==
  [][Reset /\ ~gameEnd =>
       /\ thrown' = FALSE
       /\ UNCHANGED <<gameEnd, boardState, currentBlock, nextBlock, heldBlock,
                      holdStatus, RNG, score, highScore, level, seed>>]_vars

\* a Reset has just been refused in the middle of a game
C13_Witness ==
  /\ run = -2
  /\ ~gameEnd
  /\ ~thrown

\* the 20 x 10 board with every cell 0
EmptyBoard == [r \in 1..20 |-> [col \in 1..10 |-> 0]]

\* C14: Reset on a state with gameEnd true yields gameEnd false, a
\* completely empty 20 x 10 board, score 0, level 1, no held piece, hold
\* flag false, a newly drawn active piece one row above its catalog
\* position, a newly drawn preview, and the highScore of before.
C14_ResetStartsAfresh ==
  [][Reset /\ gameEnd =>
       /\ thrown' = FALSE
       /\ gameEnd' = FALSE
       /\ boardState' = EmptyBoard
       /\ score' = 0
       /\ level' = 1
       /\ heldBlock' = null
       /\ holdStatus' = FALSE
       /\ currentBlock' = SpawnOf([name |-> KindDrawn(seed)])
       /\ nextBlock' = blockOfValue(valueOf(hash(hash(seed))))
       /\ seed' = hash(hash(seed))
       /\ highScore' = highScore]_vars

\* a new game has begun on the empty board with the high score of an
\* earlier game
C14_Witness ==
  /\ ~gameEnd
  /\ boardState = EmptyBoard
  /\ score = 0
  /\ level = 1
  /\ highScore > 0
  /\ heldBlock = null
  /\ currentBlock = SpawnOf(currentBlock)

\* C15: Tick(n) on a state whose level is n yields exactly the state
\* MoveDown yields from it; on a state whose level is not n it returns the
\* state unchanged.
C15_TickIsMoveDownAtItsLevel ==
  [][\A n \in 1..3 :
       Tick(n) =>
         IF level = n
         THEN MoveDown
         ELSE UNCHANGED <<gameEnd, boardState, currentBlock, nextBlock, heldBlock,
                          holdStatus, RNG, score, highScore, level, seed, thrown>>]_vars

\* at level 2, where the ticks of levels 1 and 3 do nothing, the piece has
\* come down from its spawn row with no key pressed
C15_Witness ==
  /\ ~thrown
  /\ level = 2
  /\ locks = 0
  /\ inputs = 0
  /\ heldBlock = null
  /\ currentBlock.group[1].y >= BlockCoordinates[currentBlock.name][1][1].y

\* C16: highScore never decreases: in every step, game ends and Resets
\* included, the highScore after is at least the highScore before.
C16_HighScoreNeverDecreases == [][highScore' >= highScore]_vars

\* a game has ended below the high score, which stays
C16_Witness ==
  /\ gameEnd
  /\ score = 20
  /\ highScore = 30

\* the number of rows the piece completes when it is merged where it is
RowsCompleted(bd, blk) == Cardinality(FullRows(Merged(bd, blk)))

\* C17: in every reachable state score is 10 times the number of rows
\* cleared since the game started (process start or the last accepted
\* Reset); no action but a lock that clears rows changes score, and Reset
\* sets it to 0.
C17_ScoreIsTenPerClearedRow ==
  /\ [](score = 10 * clearedTotal)
  /\ [][/\ score' # score =>
             \/ /\ MoveDown
                /\ Landing(currentBlock, boardState)
                /\ RowsCompleted(boardState, currentBlock) > 0
                /\ score' = score + 10 * RowsCompleted(boardState, currentBlock)
             \/ Reset /\ gameEnd
        /\ Reset /\ gameEnd => score' = 0]_vars

\* a lock has cleared a row and brought the score from 90 to 100
C17_Witness ==
  /\ locks = 1
  /\ clearedTotal = 10
  /\ score = 100

\* C18: in every reachable state level is the step function of score (1
\* below 100, 2 from 100 to 200, 3 above 200), and between two accepted
\* Resets level never decreases.
C18_LevelIsStepOfScore ==
  /\ [](/\ level = LevelOf(score)
        /\ \A n \in 0..30 : updateLevel(10 * n) = LevelOf(10 * n))
  /\ [][level' < level => Reset /\ gameEnd]_vars

\* a lock has cleared four rows and brought the score over 200 and the
\* level from 2 to 3
C18_Witness ==
  /\ locks = 1
  /\ score = 230
  /\ level = 3

\* every cell of the board holds 0 or 1
BinaryBoard(bd) == \A r \in 1..20 : \A col \in 1..10 : bd[r][col] \in {0, 1}

\* C19: in every reachable state every cell of the board holds 0 or 1, the
\* cells of the rows put on top by a line clear included: the empty board
\* of the start has only such cells, and no action makes a board of such
\* cells into a board with any other cell.
C19_CellsStayBinary ==
  [][BinaryBoard(boardState) => BinaryBoard(boardState')]_vars

\* C20: every value the random sequence produces, floor(hash(seed) / (m-1)
\* * 7) + 1, lies in 1..7, and the mapping from value to kind is total:
\* 1..6 give I, O, T, J, L, S and every other value gives Z.
C20_DrawValuesInOneToSeven ==
  /\ valueOf(seed) \in 1..7
  /\ RNG.value \in 1..7
  /\ \A v \in 1..8 :
       blockOfValue(v).name =
         CASE v = 1 -> "IBLOCK" [] v = 2 -> "OBLOCK" [] v = 3 -> "TBLOCK"
           [] v = 4 -> "JBLOCK" [] v = 5 -> "LBLOCK" [] v = 6 -> "SBLOCK"
           [] OTHER -> "ZBLOCK"

\* the cells of a piece, as a set
Cells(blk) == {blk.group[i] : i \in DOMAIN blk.group}

\* C21: two random sequences started from the same seed and advanced by
\* next() produce the same value at every step both have made: the i-th
\* value drawn from the one is the i-th value drawn from the other.
C21_SameSeedSameDraws ==
  \A i \in 1..Len(seqs[1].draws) :
    i <= Len(seqs[2].draws) => seqs[1].draws[i] = seqs[2].draws[i]

\* both sequences were advanced three times from the seed 661926866
C21_Witness ==
  /\ Len(seqs[1].draws) = 3
  /\ Len(seqs[2].draws) = 3
  /\ seqs[1].draws = seqs[2].draws
  /\ seqs[1].obj.seed = hash(hash(hash(661926866)))

\* C22: the reducer is pure with respect to the state: the same action on
\* equal states gives equal states, the pieces drawn included, because
\* every draw (on a lock, a first hold, a Reset) is made from the random
\* sequence carried in the RNG field of the state, and the draw puts the
\* successor of that sequence into the field.
C22_DrawsFromCarriedSequence ==
  [][seed' # seed => /\ RNG.seed = seed
                     /\ RNG' = RandomNumberSequence(seed')]_vars

\* C23: for every kind, every rotation index r in 1..4 and every offset,
\* rotateBlock applied four times to the piece whose cells are the catalog
\* layout of (kind, r) translated by the offset gives a piece with the
\* same set of cells and the same rotation index r.
C23_FourRotationsAreIdentity ==
  turned.turns = 4 =>
    /\ Cells(turned.now) = Cells(turned.from)
    /\ turned.now.currentRotation = turned.from.currentRotation
    /\ turned.now.name = turned.from.name

\* a T piece in rotation 3, one column to the left of and one row below
\* its layout, has been turned four times
C23_Witness ==
  /\ turned.turns = 4
  /\ turned.from = Placed("TBLOCK", 3, -1, 1)
  /\ turned.now.currentRotation = 3

\* the active piece is replaced: a lock, an accepted HoldBlock or an
\* accepted Reset
Replaced ==
  \/ locks' = locks + 1
  \/ HoldBlock /\ ~holdStatus
  \/ Reset /\ gameEnd

\* C24: in every reachable state the rotation index of the active piece,
\* of the preview piece and of the held piece (if any) is in 1..4; an
\* accepted Rotate advances the index of the active piece 1 -> 2 -> 3 ->
\* 4 -> 1, and no other action changes it except by replacing the piece.
C24_RotationIndexCycles ==
  /\ [](/\ currentBlock.currentRotation \in 1..4
        /\ nextBlock.currentRotation \in 1..4
        /\ heldBlock # null => heldBlock.currentRotation \in 1..4)
  /\ [][/\ Rotate /\ currentBlock' # currentBlock =>
             currentBlock'.currentRotation = (currentBlock.currentRotation % 4) + 1
        /\ currentBlock'.currentRotation # currentBlock.currentRotation =>
             Rotate \/ Replaced]_vars

\* the T piece that had been turned to rotation 4 one row below its spawn
\* rows has been turned once more and is in rotation 1
C24_Witness ==
  /\ RNG = RandomNumberSequence(hash(hash(hash(34))))
  /\ currentBlock = Placed("TBLOCK", 1, 0, 0)
  /\ heldBlock = null
  /\ inputs = 1
  /\ locks = 0

\* C25: once gameEnd is true, no action other than an accepted Reset
\* changes the board, the active piece, the held piece, the preview piece,
\* score or level: Tick, MoveDown, MoveSideways, Rotate and HoldBlock leave
\* these fields as they are.
C25_NothingMovesAfterGameEnd ==
  [][gameEnd /\ ~Reset =>
       UNCHANGED <<boardState, currentBlock, heldBlock, nextBlock, score, level>>]_vars

\* C26: if the piece made active by a lock or a Reset overlaps an occupied
\* cell (negative rows read as row 0), the game can only end: no
\* MoveSideways, Rotate or HoldBlock applied before the next MoveDown lets
\* a later MoveDown move or lock a piece.  Step by step: from a state whose
\* active piece is where it spawned and in the end-game condition, every
\* action but an accepted Reset leads to a state in the end-game
\* condition, in which MoveDown sets gameEnd.
C26_DoomedSpawnStaysDoomed ==
  [][/\ currentBlock = SpawnOf(currentBlock)
     /\ EndGamePre(currentBlock, boardState)
     /\ ~(Reset /\ gameEnd)
     => EndGamePre(currentBlock', boardState')]_vars

\* C27: in every reachable state with gameEnd = true, highScore is at
\* least score, so that the highScore an accepted Reset carries over is at
\* least the final score of the game it discards.
C27_HighScoreCoversScoreAtGameEnd == gameEnd => highScore >= score

\* C28: if the tick source whose level is the current level keeps firing,
\* then from every reachable state with gameEnd = false the active piece
\* eventually locks into the board or gameEnd becomes true, however
\* MoveSideways, Rotate and HoldBlock are interleaved with the ticks.
C28_PieceEventuallyLocks ==
  \A k \in 0..(MaxLocks - 1) :
    (~gameEnd /\ locks = k) ~> (locks > k \/ gameEnd)

\* C29: in every reachable state level is 1, 2 or 3, so that under any
\* interleaving of the tick sources Tick(1), Tick(2), Tick(3) exactly one
\* drives gravity: one tag equals the level, the step MoveDown makes is
\* the step of a tick source, and a tick that changes the state carries
\* the tag of the level and makes the step of MoveDown.
C29_ExactlyOneTickSourceDrives ==
  /\ [](/\ level \in {1, 2, 3}
        /\ Cardinality({n \in 1..3 : level = n}) = 1)
  /\ [][/\ MoveDown => \E n \in 1..3 : Tick(n)
        /\ \A n \in 1..3 :
             Tick(n) /\ stateVars' # stateVars => level = n /\ MoveDown]_vars

\* at level 3, reached with the lock that brought the score to 230, the
\* next piece has come down from its spawn rows
C29_Witness ==
  /\ level = 3
  /\ locks = 1
  /\ ~gameEnd
  /\ currentBlock.currentRotation = 1
  /\ currentBlock.group[1].y > SpawnOf(currentBlock).group[1].y

\* the piece has four distinct cells, and they are, cell by cell, the
\* catalog layout of its kind and rotation index moved by one offset
InStepWithCatalog(blk) ==
  LET layout == BlockCoordinates[blk.name][blk.currentRotation]
      dx == blk.group[1].x - layout[1].x
      dy == blk.group[1].y - layout[1].y
  IN /\ blk.currentRotation \in 1..4
     /\ Len(blk.group) = 4
     /\ Cardinality(Cells(blk)) = 4
     /\ \A i \in 1..4 : /\ blk.group[i].x = layout[i].x + dx
                         /\ blk.group[i].y = layout[i].y + dy

\* C30: in every reachable state the active piece, and the held piece if
\* there is one, has exactly four distinct cells that are, cell by cell,
\* the catalog layout BlockCoordinates[kind][rotation index] translated
\* by one common offset: kind, rotation index and cells are never out of
\* step with the rotation table.
C30_PiecesInStepWithCatalog ==
  /\ InStepWithCatalog(currentBlock)
  /\ heldBlock # null => InStepWithCatalog(heldBlock)

\* the step is a lock: a MoveDown of a piece that is not in the end-game
\* condition and cannot go one row further down
Locking ==
  /\ MoveDown
  /\ ~EndGamePre(currentBlock, boardState)
  /\ Landing(currentBlock, boardState)

\* C31: every lock adds all four cells of the locked piece to the board:
\* when a piece locks, each of its cells has a row in 0..19 and is empty on
\* the board, so the merged board (before full rows are removed) has
\* exactly four occupied cells more than the board before.
C31_LockAddsFourCells ==
  [][Locking =>
       /\ InsideAndFree(currentBlock.group, boardState)
       /\ OccupiedCount(Merged(boardState, currentBlock))
            = OccupiedCount(boardState) + 4]_vars

\* some cell of the piece lies on an occupied cell of the board, a cell in
\* a negative row counting as its column's cell in row 0
Overlaps(blk, bd) ==
  \E i \in DOMAIN blk.group :
    Occupied(bd, blk.group[i].x, IF blk.group[i].y < 0 THEN 0 ELSE blk.group[i].y)

\* C32: immediately after an accepted HoldBlock the new active piece (the
\* held piece taken back, or the freshly drawn piece) overlaps no occupied
\* cell of the board.
C32_HeldPieceEntersFree ==
  [][HoldBlock /\ ~holdStatus => ~Overlaps(currentBlock', boardState')]_vars

\* C33: in every reachable state every cell of the active piece has its
\* column in 0..9 and its row in -1..19.
C33_ActivePieceInBounds ==
  \A i \in DOMAIN currentBlock.group :
    /\ currentBlock.group[i].x \in 0..9
    /\ currentBlock.group[i].y \in -1..19

\* an unlocked piece stands at the left wall and on the floor: it has a cell
\* in column 0 and a cell in row 19
C33_Witness ==
  /\ ~gameEnd
  /\ locks = 0
  /\ \E i \in DOMAIN currentBlock.group : currentBlock.group[i].x = 0
  /\ \E i \in DOMAIN currentBlock.group : currentBlock.group[i].y = 19

\* C34: gameEnd is false initially, becomes true only through a MoveDown
\* (direct or via a matching Tick) whose active piece satisfies the
\* end-game condition, and once true stays true until an accepted Reset.
C34_GameEndSetAndCleared ==
  /\ ~gameEnd
  /\ [][/\ (~gameEnd /\ gameEnd') =>
             ((MoveDown \/ MatchingTick) /\ EndGamePre(currentBlock, boardState))
        /\ (gameEnd /\ ~gameEnd') => Reset]_vars

\* the game has ended before any lock and a piece has been put on hold
\* since: gameEnd is still true
C34_Witness ==
  /\ gameEnd
  /\ locks = 0
  /\ heldBlock # null
  /\ holdStatus

\* C35: the random sequence advances by exactly one draw on each lock, by
\* exactly one draw on an accepted first HoldBlock (no held piece), by
\* exactly two draws on an accepted Reset, and not at all on any other
\* transition: free fall, end-game detection, MoveSideways, Rotate, a swap
\* HoldBlock, a mismatched Tick, any rejected action.
C35_DrawsPerTransition ==
  [][seed' = IF Locking THEN hash(seed)
             ELSE IF HoldBlock /\ ~holdStatus /\ heldBlock = null THEN hash(seed)
             ELSE IF Reset /\ gameEnd THEN hash(hash(seed))
             ELSE seed]_vars

\* a first HoldBlock has been accepted and nothing has locked: the sequence
\* is one draw past the seed it had at the start
C35_Witness ==
  /\ heldBlock # null
  /\ locks = 0
  /\ seed = hash(RNG.seed)

\* C36: in every reachable state the board has exactly 20 rows of exactly
\* 10 cells each, including after locks that clear one to four rows.
C36_BoardIsTwentyByTen ==
  /\ DOMAIN boardState = 1..20
  /\ \A r \in DOMAIN boardState : DOMAIN boardState[r] = 1..10

\* a lock has cleared four rows at once (score 190 to 230): the four rows
\* put on top are there, and the row under them is not a new one
C36_Witness ==
  /\ locks = 1
  /\ score = 230
  /\ \A r \in 1..4 : \A col \in 1..10 : boardState[r][col] = undefined
  /\ Len(boardState) = 20

\* the pieces the actions hand to checkBlockCollision in a state: the
\* active piece itself (checkEndGame), the piece moved one column to either
\* side (cantMoveSideways), the rotated piece (cantRotate), and the piece
\* moved one row down unless that reaches the floor (cantMoveDown evaluates
\* checkBottomCollision first)
Probed ==
  LET moved(dx, dy) == [currentBlock EXCEPT !.group = Shifted(currentBlock, dx, dy)]
  IN {currentBlock, moved(-1, 0), moved(1, 0), rotateBlock(currentBlock)}
       \cup (IF \E i \in 1..4 : currentBlock.group[i].y + 1 >= 20
             THEN {} ELSE {moved(0, 1)})

\* C37: checkBlockCollision(board, piece) is true exactly when some cell
\* (x, y) of the piece with x in 0..9 has board[max(y, 0)][x] = 1: a cell in
\* a negative row is looked up at row 0, and a cell whose column is outside
\* 0..9 contributes no collision.
C37_CollisionIsClampedLookup ==
  \A piece \in Probed :
    checkBlockCollision(boardState, piece) <=> Overlaps(piece, boardState)

\* after a lock the piece at spawn has a cell in row -1 right above an
\* occupied cell of row 0: the lookup at row 0 makes checkBlockCollision true
C37_Witness ==
  /\ locks = 1
  /\ \E i \in DOMAIN currentBlock.group :
       /\ currentBlock.group[i].y = -1
       /\ Occupied(boardState, currentBlock.group[i].x, 0)
  /\ checkBlockCollision(boardState, currentBlock)

====
